---- MODULE Spec2Model ----
(***************************************************************************)
(* Model of the distributed batch speech-to-text dispatcher.               *)
(*                                                                         *)
(*   src/server/server.py : the coordinator (FastAPI handlers GET /task,   *)
(*                          POST /result, POST /error) on top of three     *)
(*                          files: DB_FILE (in-progress lines),            *)
(*                          FAILED_FILE (failed paths) and LOCK_FILE.      *)
(*   src/client/client.py : the worker loop (process_loop).                *)
(*                                                                         *)
(* Every file-system call of a handler is one step, so that handlers that  *)
(* run in parallel can interleave between any two calls, as they can in    *)
(* the program: get_task is a plain def, which FastAPI runs on a thread    *)
(* pool; post_result and post_error are async def and share one event loop *)
(* per server process, so two of them overlap only across processes        *)
(* (uvicorn --workers), but each overlaps with the get_task threads.       *)
(***************************************************************************)
EXTENDS Integers, Sequences, FiniteSets, TLC

(***************************************************************************)
(* Program constants.                                                      *)
(***************************************************************************)
TASK_TIMEOUT == 360000

STALE_LOCK_TIMEOUT == 10

ACQUIRE_TIMEOUT == 4

max_attempts == 3

\* for attempt in range(3): the worker's tries of POST /result
UPLOAD_ATTEMPTS == 3

\* float(os.getenv("PROCESSING_HOURS", "1")): the budget of a cron window
PROCESSING_HOURS == 1

(***************************************************************************)
(* Bounds of the model.                                                    *)
(***************************************************************************)
\* how many times the clock advances in one behaviour
MaxTicks == 2

\* how many requests the coordinator receives in one behaviour
MaxRequests == 3

\* GET /task requests the modelled worker sends
MaxPolls == 2

(***************************************************************************)
(* The world: handler threads, client addresses, audio files.              *)
(* A path is the sequence of its ':'-separated pieces, which is what       *)
(* line.split(':') sees: P3 is a path that contains a colon.               *)
(***************************************************************************)
Handlers == {"h1", "h2"}

Clients == {"A", "B"}

P1 == <<"/audio/a.mp3">>

P2 == <<"/audio/b.mp3">>

P3 == <<"/audio/x", "c.mp3">>

Paths == {P1, P2, P3}

NoPath == <<>>

NoFile == "<absent>"

NoLock == <<>>

\* hashlib.md5(path_str.encode()).hexdigest(): a fixed function of the path
MD5(path) ==
    IF path = P1 THEN "md5-a"
    ELSE IF path = P2 THEN "md5-b"
    ELSE IF path = P3 THEN "md5-c"
    ELSE "md5-other"

\* the ids a client may put in a request body: the issued ones, an unknown one
\* and the empty string (a missing "id")
RequestIds == {MD5(P1), "md5-unknown", ""}

\* the subtitle text a worker at address c posts
VttOf(c) == IF c = "A" THEN "WEBVTT by A" ELSE "WEBVTT by B"

\* the advances of the clock: just past the lock timeouts, just past a lease
TickSteps == {STALE_LOCK_TIMEOUT + 1, TASK_TIMEOUT + 1}

\* the audio roots a behaviour may start from: which files have a usable sidecar
SidecarChoices ==
    { [p \in Paths |-> TRUE],
      [p \in Paths |-> p # P1],
      [p \in Paths |-> FALSE] }

VARIABLES
    now,        \* time.time()
    ticks,      \* number of clock advances so far (bounded by MaxTicks)
    db,         \* DB_FILE: the sequence of its lines, each the pieces id:path:ts
    failed,     \* FAILED_FILE: the set of paths it lists
    lock,       \* LOCK_FILE: NoLock, or <<[mtime, by]>> of the file that exists
    vtt,        \* the sibling .vtt of every audio file: NoFile or its text
    sidecar,    \* whether the sibling .json carries sql_params.language
    hs,         \* per handler thread: its position and its local variables
    nreq,       \* requests received so far (bounded by MaxRequests)
    completed,  \* history: paths whose in-progress line a POST /result removed
    gen,        \* history: how many times each path was recorded in progress
    expiredGen, \* history: gen of a path when a cleanup last removed its expired line
    errored,    \* history: paths for which a POST /error was answered 200
    w           \* the worker that runs process_loop

vars == <<now, ticks, db, failed, lock, vtt, sidecar, hs, nreq, completed, gen,
          expiredGen, errored, w>>

hist == <<completed, gen, expiredGen, errored>>

(***************************************************************************)
(* DB_FILE lines.                                                          *)
(***************************************************************************)
\* f"{id_}:{path_str}:{time.time()}" as line.split(':') returns it
FormatLine(id, path, ts) == <<id>> \o path \o <<ts>>

\* parts[0]
LineId(parts) == parts[1]

\* parts[1] alone: the pieces of a path that has a ':' in it are not put
\* together again
LinePath_SecondPiece(parts) == <<parts[2]>>

\* ':'.join(parts[1:-1]) with a timestamp, ':'.join(parts[1:]) without one
LinePath(parts) ==
    IF Len(parts) >= 3 THEN SubSeq(parts, 2, Len(parts) - 1)
    ELSE SubSeq(parts, 2, Len(parts))

\* float(parts[-1]) with a timestamp, 0 for an old line without one
LineTs(parts) == IF Len(parts) >= 3 THEN parts[Len(parts)] ELSE 0

\* in_progress[path] = ts on a dict kept as a sequence of <<path, ts>> in
\* insertion order: an existing key keeps its place and takes the new value
DictPut(d, path, ts) ==
    IF \E i \in 1..Len(d) : d[i][1] = path
    THEN [i \in 1..Len(d) |-> IF d[i][1] = path THEN <<path, ts>> ELSE d[i]]
    ELSE Append(d, <<path, ts>>)

RECURSIVE ReadInProgressFrom(_, _)
ReadInProgressFrom(lines, d) ==
    IF lines = <<>> THEN d
    ELSE ReadInProgressFrom(Tail(lines),
            IF Len(Head(lines)) >= 2
            THEN DictPut(d, LinePath(Head(lines)), LineTs(Head(lines)))
            ELSE d)

\* the in_progress dict find_file_to_process builds from DB_FILE
ReadInProgress(lines) == ReadInProgressFrom(lines, <<>>)

DictKeys(d) == {d[i][1] : i \in 1..Len(d)}

\* a task's lease has run out
Expired(ts, t) == t - ts > TASK_TIMEOUT

\* expired_paths = [path for path, ts in in_progress.items() if now - ts > TASK_TIMEOUT]
ExpiredPaths(d, t) ==
    LET Sel(e) == Expired(e[2], t)
    IN  [i \in 1..Len(SelectSeq(d, Sel)) |-> SelectSeq(d, Sel)[i][1]]

SeqRange(s) == {s[i] : i \in 1..Len(s)}

\* new_lines of the cleanup: the lines whose path is not in expired_paths
DropExpired(lines, expired) ==
    LET Keep(l) == ~(Len(l) >= 2 /\ LinePath(l) \in SeqRange(expired))
    IN  SelectSeq(lines, Keep)

\* {p: t for p, t in in_progress.items() if p not in expired_paths}
DictDrop(d, expired) ==
    LET Keep(e) == e[1] \notin SeqRange(expired)
    IN  SelectSeq(d, Keep)

\* a variant of the comparison below that forgets the id: any well-formed line
\* is taken for the request's line
LineMatches_AnyId(l, id) == Len(l) >= 2

\* the line POST /result and POST /error look for: parts[0] == id_
LineMatches(l, id) == Len(l) >= 2 /\ LineId(l) = id

\* matching_path: the path of the first line with the id, NoPath if there is none
MatchingPath(lines, id) ==
    IF \E i \in 1..Len(lines) : LineMatches(lines[i], id)
    THEN LinePath(lines[CHOOSE i \in 1..Len(lines) :
                           /\ LineMatches(lines[i], id)
                           /\ \A j \in 1..(i - 1) : ~LineMatches(lines[j], id)])
    ELSE NoPath

\* new_lines = [l for l in lines if not (l.strip() and l.strip().split(':')[0] == id_)]
DropId(lines, id) ==
    LET Keep(l) == ~(LineId(l) = id)
    IN  SelectSeq(lines, Keep)

\* the order in which Path(root_dir).rglob('*.mp3') yields the files
ScanOrder == <<P1, P2, P3>>

\* a scan that never returns a file that POST /result once completed
Candidate_NotCompleted(p, d, failedSeen) ==
    vtt[p] = NoFile /\ p \notin DictKeys(d) /\ p \notin failedSeen /\ p \notin completed

\* a scan that does not look for the sibling .vtt
Candidate_NoVttCheck(p, d, failedSeen) ==
    p \notin DictKeys(d) /\ p \notin failedSeen

\* the files find_file_to_process may return: no sibling .vtt, not in the
\* in_progress dict it read, not in the failed set it read
Candidate(p, d, failedSeen) ==
    vtt[p] = NoFile /\ p \notin DictKeys(d) /\ p \notin failedSeen

\* the first file of the scan that is in cands
FirstOf(cands) ==
    ScanOrder[CHOOSE i \in 1..Len(ScanOrder) :
                 /\ ScanOrder[i] \in cands
                 /\ \A j \in 1..(i - 1) : ScanOrder[j] \notin cands]

(***************************************************************************)
(* The worker and the handler threads at rest.                             *)
(***************************************************************************)
\* the worker between two iterations of process_loop: current_task_id = None,
\* current_files = [], the three directories as the earlier iterations left them
IdleW ==
    [pc |-> "poll", polls |-> 0, task_id |-> "", vtt_file |-> NoFile, vtt_content |-> "",
     attempt |-> 0, posted |-> FALSE, ret |-> "none",
     processed_uploaded |-> {}, processed_not_uploaded |-> {},
     not_processed_failed_report |-> {},
     \* history of the iteration, for the properties
     transcribed |-> FALSE,   \* the whisper subprocess ended with rc 0
     accepted |-> FALSE,      \* a POST /result of the iteration was answered 200
     reached |-> FALSE,       \* a POST of the iteration reached the coordinator
     interrupted |-> FALSE,   \* the flag signal_handler sets
     after |-> 0,             \* the requests.get calls made with the flag set
     cron |-> FALSE,          \* CRON_SCHEDULE is set: process_loop runs in windows
     session_start |-> 0,     \* datetime.now() when the window started
     moved |-> FALSE,         \* os.rename of vtt_file into a directory succeeded
     \* retry_failed: the directory listing still to visit, and its history
     todo |-> {},
     rfReachable |-> TRUE,    \* every request of the run was answered and seen
     rfFirstTry |-> TRUE,     \* every request of the run was answered 200
     rfReadOk |-> TRUE,       \* every artifact of the run's listing was read
     rfFilesOk |-> TRUE,      \* no os.rename or os.remove of the run raised
     \* ids filed while no request reached the coordinator, no run since
     stranded |-> {},
     snap |-> <<>>]           \* what a run found, when it follows a run at once

\* a handler thread that serves no request
IdleH ==
    [pc |-> "idle", kind |-> "none", id |-> "", body |-> "",
     attempts |-> 0, in_progress |-> <<>>, failedSeen |-> {}, expired |-> <<>>,
     ei |-> 0, file |-> NoPath, lines |-> <<>>, matching_path |-> NoPath,
     start |-> 0, ret |-> "none", exc |-> "none", site |-> "none",
     resp |-> 0, error |-> "none",
     \* history of the request, for the properties
     touched |-> FALSE,       \* it wrote DB_FILE, FAILED_FILE or an artifact
     cleaned |-> FALSE,       \* it rewrote DB_FILE without the expired lines
     found |-> "unread",      \* whether DB_FILE held a line with its id at the lookup
     late |-> FALSE,          \* a result of the first claimant after its lease expired
     erroredAtStart |-> {},   \* errored when the request arrived
     bad |-> {},              \* the paths whose sidecar it found unusable
     scanEmpty |-> FALSE,     \* its last scan found no file to hand out
     withVtt |-> {},          \* the files whose .vtt existed at its last scan
     \* the files its last scan went past though neither in progress nor failed
     passed |-> {}]

ServerInit ==
    /\ now = 0
    /\ ticks = 0
    /\ sidecar \in SidecarChoices
    /\ \/ db = <<>>
       \/ sidecar[P1] /\ db = <<FormatLine(MD5(P1), P1, 0)>>
    /\ failed = {}
    /\ lock = NoLock
    /\ vtt = [p \in Paths |-> NoFile]
    /\ hs = [r \in Handlers |-> IdleH]
    /\ nreq = 0
    /\ completed = {}
    /\ gen = [p \in Paths |-> Cardinality({i \in 1..Len(db) : LinePath(db[i]) = p})]
    /\ expiredGen = [p \in Paths |-> 0]
    /\ errored = {}

Init == ServerInit /\ w = IdleW

HandlerOrder == <<"h1", "h2">>

\* the thread has no request: it never had one, or it has sent its response
\* (its record then still shows that response)
Free(h) == h.pc \in {"idle", "done"}

\* a request is served by the first thread of the pool that is free
FreeHandler(r) ==
    /\ Free(hs[r])
    /\ \E i \in 1..Len(HandlerOrder) :
          /\ HandlerOrder[i] = r
          /\ \A j \in 1..(i - 1) : ~Free(hs[HandlerOrder[j]])

SetH(r, rec) == hs' = [hs EXCEPT ![r] = rec]

\* the handler ends with this status code; its other locals go out of scope
Respond(h, code) ==
    [IdleH EXCEPT !.pc = "done", !.resp = code, !.kind = h.kind, !.id = h.id,
                  !.body = h.body, !.file = h.file, !.matching_path = h.matching_path,
                  !.expired = h.expired, !.touched = h.touched, !.cleaned = h.cleaned,
                  !.found = h.found, !.late = h.late, !.error = h.error,
                  !.erroredAtStart = h.erroredAtStart, !.attempts = h.attempts,
                  !.bad = h.bad, !.scanEmpty = h.scanEmpty, !.withVtt = h.withVtt,
                  !.passed = h.passed]

\* the handler calls acquire_lock: start = time.time(); on return it goes on at
\* ret, on TimeoutError at exc
CallAcquire(h, ret, exc) ==
    [h EXCEPT !.pc = "acq_top", !.start = now, !.ret = ret, !.exc = exc]

\* where an exception that no handler code catches ends: a 500 response
Raise(h, exc) ==
    IF exc = "raise500" THEN Respond(h, 500)
    ELSE [h EXCEPT !.pc = exc, !.start = 0, !.ret = "none", !.exc = "none"]

\* the handler ends with an exception nothing catches: FastAPI answers 500
Fail(h, error) == Respond([h EXCEPT !.error = error], 500)

(***************************************************************************)
(* The clock.                                                              *)
(***************************************************************************)
\* some recorded time is still to be compared with the clock: a lease, the
\* lock file's mtime, the start of an acquire_lock
TimeMatters ==
    \/ w.cron /\ w.pc # "exited"
    \/ db # <<>>
    \/ lock # NoLock
    \/ \E r \in Handlers : hs[r].pc \in {"acq_top", "acq_remove", "acq_create"}

Tick ==
    /\ ticks < MaxTicks
    /\ TimeMatters
    /\ \E d \in TickSteps : now' = now + d
    /\ ticks' = ticks + 1
    /\ UNCHANGED <<w, db, failed, lock, vtt, sidecar, hs, nreq, hist>>

(***************************************************************************)
(* acquire_lock and release_lock.                                          *)
(***************************************************************************)
\* while time.time() - start < timeout
AcquireWithinTimeout(h) == now - h.start < ACQUIRE_TIMEOUT

\* time.time() - stat_info.st_mtime > STALE_LOCK_TIMEOUT
LockIsStale == lock # NoLock /\ now - lock[1].mtime > STALE_LOCK_TIMEOUT

\* the loop condition holds; os.path.exists and os.stat tell whether a stale
\* lock is to be removed
AcquireLoop(r) ==
    /\ hs[r].pc = "acq_top"
    /\ AcquireWithinTimeout(hs[r])
    /\ SetH(r, [hs[r] EXCEPT !.pc = IF LockIsStale THEN "acq_remove" ELSE "acq_create"])
    /\ UNCHANGED <<w, now, ticks, db, failed, lock, vtt, sidecar, nreq, hist>>

\* the loop condition fails: raise TimeoutError
AcquireTimeout(r) ==
    /\ hs[r].pc = "acq_top"
    /\ ~AcquireWithinTimeout(hs[r])
    /\ SetH(r, Raise([hs[r] EXCEPT !.error = "TimeoutError"], hs[r].exc))
    /\ UNCHANGED <<w, now, ticks, db, failed, lock, vtt, sidecar, nreq, hist>>

\* os.remove(lock_file) of the lock found stale; a failure is logged and ignored
AcquireRemoveStale(r) ==
    /\ hs[r].pc = "acq_remove"
    /\ lock' = NoLock
    /\ SetH(r, [hs[r] EXCEPT !.pc = "acq_create"])
    /\ UNCHANGED <<w, now, ticks, db, failed, vtt, sidecar, nreq, hist>>

\* os.open(lock_file, O_CREAT | O_EXCL | O_RDWR) succeeds
AcquireCreate(r) ==
    /\ hs[r].pc = "acq_create"
    /\ lock = NoLock
    /\ lock' = <<[mtime |-> now, by |-> r]>>
    /\ SetH(r, [hs[r] EXCEPT !.pc = hs[r].ret, !.start = 0, !.ret = "none",
                             !.exc = "none"])
    /\ UNCHANGED <<w, now, ticks, db, failed, vtt, sidecar, nreq, hist>>

\* os.open raises FileExistsError: sleep and loop
AcquireBusy(r) ==
    /\ hs[r].pc = "acq_create"
    /\ lock # NoLock
    /\ SetH(r, [hs[r] EXCEPT !.pc = "acq_top"])
    /\ UNCHANGED <<w, now, ticks, db, failed, lock, vtt, sidecar, nreq, hist>>

\* release_lock: os.close(fd); os.remove(lock_file). The remove takes whatever
\* lock file is there, and raises FileNotFoundError when there is none.
ReleaseFinds == lock # NoLock

(***************************************************************************)
(* GET /task.                                                              *)
(***************************************************************************)
\* a thread takes the request: attempts = 0 and the first pass of the loop
BeginGetTask(r) ==
    /\ FreeHandler(r)
    /\ SetH(r, [IdleH EXCEPT !.pc = "ff_read_db", !.kind = "task",
                             !.erroredAtStart = errored])
    /\ UNCHANGED <<now, ticks, db, failed, lock, vtt, sidecar, hist>>

\* GET /task arrives from some worker
StartGetTask(r) ==
    /\ nreq < MaxRequests
    /\ nreq' = nreq + 1
    /\ BeginGetTask(r)
    /\ UNCHANGED w

\* while attempts < max_attempts: ... else 204 ("Max attempts reached")
GetTaskLoop(h) ==
    IF h.attempts < max_attempts
    THEN [h EXCEPT !.pc = "ff_read_db", !.file = NoPath, !.site = "none"]
    ELSE Respond(h, 204)

\* find_file_to_process reads DB_FILE into in_progress (no lock held)
FindReadDb(r) ==
    /\ hs[r].pc = "ff_read_db"
    /\ SetH(r, [hs[r] EXCEPT !.pc = "ff_read_failed",
                             !.in_progress = ReadInProgress(db)])
    /\ UNCHANGED <<w, now, ticks, db, failed, lock, vtt, sidecar, nreq, hist>>

\* it reads FAILED_FILE, takes now = time.time() and lists the expired paths;
\* with any, it takes the lock for the cleanup
FindReadFailed(r) ==
    /\ hs[r].pc = "ff_read_failed"
    /\ LET exp == ExpiredPaths(hs[r].in_progress, now)
           h == [hs[r] EXCEPT !.failedSeen = failed, !.expired = exp]
       IN  SetH(r, IF exp # <<>>
                   THEN CallAcquire(h, "ff_exp_read", "raise500")
                   ELSE [h EXCEPT !.pc = "ff_scan"])
    /\ UNCHANGED <<w, now, ticks, db, failed, lock, vtt, sidecar, nreq, hist>>

\* cleanup: lines = f.readlines()
FindExpRead(r) ==
    /\ hs[r].pc = "ff_exp_read"
    /\ SetH(r, [hs[r] EXCEPT !.pc = "ff_exp_write", !.lines = db])
    /\ UNCHANGED <<w, now, ticks, db, failed, lock, vtt, sidecar, nreq, hist>>

\* for path in expired_paths: add_to_failed(path), the lock still held; after
\* the last one the finally clause releases the lock
FindExpNext(h) ==
    IF h.ei <= Len(h.expired)
    THEN CallAcquire([h EXCEPT !.site = "expire"], "atf_append", "ff_exp_unwind")
    ELSE [h EXCEPT !.pc = "ff_exp_release", !.site = "none"]

\* cleanup: DB_FILE is rewritten without the expired paths' lines, and the
\* loop over expired_paths begins
FindExpWrite(r) ==
    /\ hs[r].pc = "ff_exp_write"
    /\ db' = DropExpired(hs[r].lines, hs[r].expired)
    /\ expiredGen' = [p \in Paths |-> IF p \in SeqRange(hs[r].expired)
                                      THEN gen[p] ELSE expiredGen[p]]
    /\ SetH(r, FindExpNext([hs[r] EXCEPT !.ei = 1, !.touched = TRUE,
                                         !.cleaned = TRUE, !.lines = <<>>]))
    /\ UNCHANGED <<w, now, ticks, failed, lock, vtt, sidecar, nreq, completed, gen, errored>>

\* the path add_to_failed was called with
FailedArg(h) == IF h.site = "expire" THEN h.expired[h.ei] ELSE h.file

\* add_to_failed: f.write(f"{path}\n") on FAILED_FILE
AddToFailedAppend(r) ==
    /\ hs[r].pc = "atf_append"
    /\ failed' = failed \cup {FailedArg(hs[r])}
    /\ SetH(r, [hs[r] EXCEPT !.pc = "atf_release", !.touched = TRUE])
    /\ UNCHANGED <<w, now, ticks, db, lock, vtt, sidecar, nreq, hist>>

\* add_to_failed: finally release_lock; then back in the caller, which goes
\* on with the next expired path, or with attempts += 1 and the next pass
AddToFailedRelease(r) ==
    /\ hs[r].pc = "atf_release"
    /\ IF ReleaseFinds
       THEN /\ lock' = NoLock
            /\ SetH(r, IF hs[r].site = "expire"
                       THEN FindExpNext([hs[r] EXCEPT !.ei = @ + 1])
                       ELSE GetTaskLoop([hs[r] EXCEPT !.attempts = @ + 1]))
       ELSE /\ lock' = lock
            /\ SetH(r, Raise([hs[r] EXCEPT !.error = "FileNotFoundError"],
                             IF hs[r].site = "expire" THEN "ff_exp_unwind" ELSE "raise500"))
    /\ UNCHANGED <<w, now, ticks, db, failed, vtt, sidecar, nreq, hist>>

\* cleanup ends normally: finally release_lock, then in_progress is filtered
FindExpRelease(r) ==
    /\ hs[r].pc = "ff_exp_release"
    /\ IF ReleaseFinds
       THEN /\ lock' = NoLock
            /\ SetH(r, [hs[r] EXCEPT !.pc = "ff_scan",
                           !.in_progress = DictDrop(@, hs[r].expired)])
       ELSE /\ lock' = lock
            /\ SetH(r, Fail(hs[r], "FileNotFoundError"))
    /\ UNCHANGED <<w, now, ticks, db, failed, vtt, sidecar, nreq, hist>>

\* cleanup ends by an exception of add_to_failed: finally release_lock, and
\* the exception (or release_lock's own) ends the request
FindExpUnwind(r) ==
    /\ hs[r].pc = "ff_exp_unwind"
    /\ lock' = NoLock
    /\ SetH(r, Respond(hs[r], 500))
    /\ UNCHANGED <<w, now, ticks, db, failed, vtt, sidecar, nreq, hist>>

\* the place of a file in the scan
ScanIndex(p) == CHOOSE i \in 1..Len(ScanOrder) : ScanOrder[i] = p

\* the files a scan that stops at place n has looked at and found neither in
\* the in_progress dict nor in the failed set
PassedBefore(n, d, failedSeen) ==
    {p \in Paths : ScanIndex(p) < n /\ p \notin DictKeys(d) /\ p \notin failedSeen}

\* the scan of the audio root: the first file without artifact that is neither
\* in progress nor failed, in the directory's order; None gives 204
FindScan(r) ==
    /\ hs[r].pc = "ff_scan"
    /\ LET cands == {p \in Paths : Candidate(p, hs[r].in_progress, hs[r].failedSeen)}
           stop == IF cands = {} THEN Len(ScanOrder) + 1 ELSE ScanIndex(FirstOf(cands))
           h == [hs[r] EXCEPT !.in_progress = <<>>, !.failedSeen = {},
                              !.withVtt = {p \in Paths : vtt[p] # NoFile},
                              !.passed = PassedBefore(stop, hs[r].in_progress,
                                                      hs[r].failedSeen)]
       IN  SetH(r, IF cands = {}
                   THEN Respond([h EXCEPT !.scanEmpty = TRUE], 204)
                   ELSE [h EXCEPT !.pc = "gt_json", !.file = FirstOf(cands)])
    /\ UNCHANGED <<w, now, ticks, db, failed, lock, vtt, sidecar, nreq, hist>>

\* a variant of the step below that takes every sidecar for good
GetTaskJson_NoCheck(r) ==
    /\ hs[r].pc = "gt_json"
    /\ SetH(r, CallAcquire(hs[r], "gt_append", "raise500"))
    /\ UNCHANGED <<w, now, ticks, db, failed, lock, vtt, sidecar, nreq, hist>>

\* the sidecar is read: with a language the file is good and the lock is taken
\* to record it; without, add_to_failed(path_str) and the next attempt
GetTaskJson(r) ==
    /\ hs[r].pc = "gt_json"
    /\ SetH(r, IF sidecar[hs[r].file]
               THEN CallAcquire(hs[r], "gt_append", "raise500")
               ELSE CallAcquire([hs[r] EXCEPT !.site = "json", !.bad = @ \cup {hs[r].file}],
                                "atf_append", "raise500"))
    /\ UNCHANGED <<w, now, ticks, db, failed, lock, vtt, sidecar, nreq, hist>>

\* f.write(f"{id_}:{path_str}:{time.time()}\n") appended to DB_FILE
GetTaskAppend(r) ==
    /\ hs[r].pc = "gt_append"
    /\ db' = Append(db, FormatLine(MD5(hs[r].file), hs[r].file, now))
    /\ completed' = completed \ {hs[r].file}
    /\ gen' = [gen EXCEPT ![hs[r].file] = @ + 1]
    /\ SetH(r, [hs[r] EXCEPT !.pc = "gt_release", !.touched = TRUE])
    /\ UNCHANGED <<w, now, ticks, failed, lock, vtt, sidecar, nreq, expiredGen, errored>>

\* finally release_lock, then 200 with X-Task-ID and the streamed body
GetTaskRelease(r) ==
    /\ hs[r].pc = "gt_release"
    /\ IF ReleaseFinds
       THEN /\ lock' = NoLock
            /\ SetH(r, Respond([hs[r] EXCEPT !.id = MD5(hs[r].file)], 200))
       ELSE /\ lock' = lock
            /\ SetH(r, Fail(hs[r], "FileNotFoundError"))
    /\ UNCHANGED <<w, now, ticks, db, failed, vtt, sidecar, nreq, hist>>

(***************************************************************************)
(* POST /result.                                                           *)
(***************************************************************************)
\* if not id_ or not vtt_content: 400; else the lock is taken
BeginPostResult(r, id, body) ==
    /\ FreeHandler(r)
    /\ LET h == [IdleH EXCEPT !.kind = "result", !.id = id, !.body = body]
       IN  SetH(r, IF id = "" \/ body = ""
                   THEN Respond(h, 400)
                   ELSE CallAcquire(h, "pr_read", "raise500"))
    /\ UNCHANGED <<now, ticks, db, failed, lock, vtt, sidecar, hist>>

\* POST /result arrives from some worker
StartPostResult(r, id, body) ==
    /\ nreq < MaxRequests
    /\ nreq' = nreq + 1
    /\ BeginPostResult(r, id, body)
    /\ UNCHANGED w

\* history: DB_FILE holds a line that begins with the id
HasEntry(id) == \E i \in 1..Len(db) : db[i][1] = id

\* history: the first claimant's subtitle arrives for a path whose lease ran
\* out and was cleaned up, and that has since been recorded in progress again
LateResult(id, body) ==
    /\ body = VttOf("A")
    /\ \E p \in Paths :
          /\ MD5(p) = id
          /\ expiredGen[p] >= 1
          /\ gen[p] > expiredGen[p]
          /\ \E i \in 1..Len(db) : db[i] = FormatLine(id, p, db[i][Len(db[i])])

\* lines = f.readlines() and the search for the line with the id
PostResultRead(r) ==
    /\ hs[r].pc = "pr_read"
    /\ LET mp == MatchingPath(db, hs[r].id)
       IN  SetH(r, [hs[r] EXCEPT !.lines = db, !.matching_path = mp,
                                 !.found = IF HasEntry(hs[r].id) THEN "yes" ELSE "no",
                                 !.late = LateResult(hs[r].id, hs[r].body),
                                 !.pc = IF mp = NoPath THEN "pr_not_found"
                                        ELSE "pr_write_db"])
    /\ UNCHANGED <<w, now, ticks, db, failed, lock, vtt, sidecar, nreq, hist>>

\* no line has the id: HTTPException(404) through the finally clause
PostResultNotFound(r) ==
    /\ hs[r].pc = "pr_not_found"
    /\ IF ReleaseFinds
       THEN /\ lock' = NoLock
            /\ SetH(r, Respond(hs[r], 404))
       ELSE /\ lock' = lock
            /\ SetH(r, Fail(hs[r], "FileNotFoundError"))
    /\ UNCHANGED <<w, now, ticks, db, failed, vtt, sidecar, nreq, hist>>

\* DB_FILE is rewritten without the lines of the id
PostResultWriteDb(r) ==
    /\ hs[r].pc = "pr_write_db"
    /\ db' = DropId(hs[r].lines, hs[r].id)
    /\ completed' = completed \cup {hs[r].matching_path}
    /\ SetH(r, [hs[r] EXCEPT !.pc = "pr_release", !.touched = TRUE, !.lines = <<>>])
    /\ UNCHANGED <<w, now, ticks, failed, lock, vtt, sidecar, nreq, gen, expiredGen, errored>>

\* a handler that goes on to write the artifact with its lock file in place
PostResultRelease_KeepsLock(r) ==
    /\ hs[r].pc = "pr_release"
    /\ SetH(r, [hs[r] EXCEPT !.pc = "pr_write_vtt"])
    /\ UNCHANGED <<w, now, ticks, db, failed, lock, vtt, sidecar, nreq, hist>>

\* finally release_lock
PostResultRelease(r) ==
    /\ hs[r].pc = "pr_release"
    /\ IF ReleaseFinds
       THEN /\ lock' = NoLock
            /\ SetH(r, [hs[r] EXCEPT !.pc = "pr_write_vtt"])
       ELSE /\ lock' = lock
            /\ SetH(r, Fail(hs[r], "FileNotFoundError"))
    /\ UNCHANGED <<w, now, ticks, db, failed, vtt, sidecar, nreq, hist>>

\* vtt_path.write_text(vtt_content), then 200
PostResultWriteVtt(r) ==
    /\ hs[r].pc = "pr_write_vtt"
    /\ vtt' = [vtt EXCEPT ![hs[r].matching_path] = hs[r].body]
    /\ SetH(r, Respond([hs[r] EXCEPT !.touched = TRUE], 200))
    /\ UNCHANGED <<w, now, ticks, db, failed, lock, sidecar, nreq, hist>>

\* vtt_path.write_text raises (disk full, directory not writable): 500
PostResultWriteFails(r) ==
    /\ hs[r].pc = "pr_write_vtt"
    /\ SetH(r, Fail(hs[r], "ArtifactWriteFailed"))
    /\ UNCHANGED <<w, now, ticks, db, failed, lock, vtt, sidecar, nreq, hist>>

(***************************************************************************)
(* POST /error.                                                            *)
(***************************************************************************)
\* if not id_: 400; else the lock is taken
BeginPostError(r, id) ==
    /\ FreeHandler(r)
    /\ LET h == [IdleH EXCEPT !.kind = "error", !.id = id]
       IN  SetH(r, IF id = ""
                   THEN Respond(h, 400)
                   ELSE CallAcquire(h, "pe_read", "raise500"))
    /\ UNCHANGED <<now, ticks, db, failed, lock, vtt, sidecar, hist>>

\* POST /error arrives from some worker
StartPostError(r, id) ==
    /\ nreq < MaxRequests
    /\ nreq' = nreq + 1
    /\ BeginPostError(r, id)
    /\ UNCHANGED w

\* lines = f.readlines() and the search for the line with the id
PostErrorRead(r) ==
    /\ hs[r].pc = "pe_read"
    /\ LET mp == MatchingPath(db, hs[r].id)
       IN  SetH(r, [hs[r] EXCEPT !.lines = db, !.matching_path = mp,
                                 !.found = IF HasEntry(hs[r].id) THEN "yes" ELSE "no",
                                 !.pc = IF mp = NoPath THEN "pe_not_found"
                                        ELSE "pe_write_db"])
    /\ UNCHANGED <<w, now, ticks, db, failed, lock, vtt, sidecar, nreq, hist>>

\* no line has the id: HTTPException(404) through the finally clause
PostErrorNotFound(r) ==
    /\ hs[r].pc = "pe_not_found"
    /\ IF ReleaseFinds
       THEN /\ lock' = NoLock
            /\ SetH(r, Respond(hs[r], 404))
       ELSE /\ lock' = lock
            /\ SetH(r, Fail(hs[r], "FileNotFoundError"))
    /\ UNCHANGED <<w, now, ticks, db, failed, vtt, sidecar, nreq, hist>>

\* DB_FILE is rewritten without the lines of the id; nothing else is recorded
PostErrorWriteDb(r) ==
    /\ hs[r].pc = "pe_write_db"
    /\ db' = DropId(hs[r].lines, hs[r].id)
    /\ SetH(r, [hs[r] EXCEPT !.pc = "pe_release", !.touched = TRUE, !.lines = <<>>])
    /\ UNCHANGED <<w, now, ticks, failed, lock, vtt, sidecar, nreq, hist>>

\* finally release_lock, then 200
PostErrorRelease(r) ==
    /\ hs[r].pc = "pe_release"
    /\ IF ReleaseFinds
       THEN /\ lock' = NoLock
            /\ SetH(r, Respond(hs[r], 200))
            /\ errored' = errored \cup {hs[r].matching_path}
       ELSE /\ lock' = lock
            /\ SetH(r, Fail(hs[r], "FileNotFoundError"))
            /\ errored' = errored
    /\ UNCHANGED <<w, now, ticks, db, failed, vtt, sidecar, nreq, completed, gen, expiredGen>>

\* one step of a handler thread inside acquire_lock
LockStep(r) ==
    \/ AcquireLoop(r)
    \/ AcquireTimeout(r)
    \/ AcquireRemoveStale(r)
    \/ AcquireCreate(r)
    \/ AcquireBusy(r)

\* one step of a thread serving GET /task
GetTaskStep(r) ==
    \/ FindReadDb(r)
    \/ FindReadFailed(r)
    \/ FindExpRead(r)
    \/ FindExpWrite(r)
    \/ AddToFailedAppend(r)
    \/ AddToFailedRelease(r)
    \/ FindExpRelease(r)
    \/ FindExpUnwind(r)
    \/ FindScan(r)
    \/ GetTaskJson(r)
    \/ GetTaskAppend(r)
    \/ GetTaskRelease(r)

\* one step of a thread serving POST /result or POST /error
PostStep(r) ==
    \/ PostResultRead(r)
    \/ PostResultNotFound(r)
    \/ PostResultWriteDb(r)
    \/ PostResultRelease(r)
    \/ PostResultWriteVtt(r)
    \/ PostResultWriteFails(r)
    \/ PostErrorRead(r)
    \/ PostErrorNotFound(r)
    \/ PostErrorWriteDb(r)
    \/ PostErrorRelease(r)

ServerStep(r) == LockStep(r) \/ GetTaskStep(r) \/ PostStep(r)

\* the POST /result bodies that arrive: either worker's subtitle for the first
\* file, an id nobody was given, and the two malformed bodies
ResultRequests ==
    {<<MD5(P1), VttOf(c)>> : c \in Clients}
        \cup {<<"md5-unknown", VttOf("A")>>, <<"", VttOf("A")>>, <<MD5(P1), "">>}

\* a request arrives
Arrive(r) ==
    \/ StartGetTask(r)
    \/ \E q \in ResultRequests : StartPostResult(r, q[1], q[2])
    \/ \E id \in RequestIds : StartPostError(r, id)

Next ==
    \/ Tick
    \/ \E r \in Handlers : Arrive(r)
    \/ \E r \in Handlers : ServerStep(r)

Spec == Init /\ [][Next]_vars

(***************************************************************************)
(* Workers that keep polling: one thread serves one GET /task after the    *)
(* other, for ever.  The threads run on and the workers poll again; time   *)
(* need not pass.                                                          *)
(***************************************************************************)
Poller == "h1"

\* the next poll of a worker's process_loop reaches get_task
Poll ==
    /\ BeginGetTask(Poller)
    /\ UNCHANGED <<w, nreq>>

\* time.sleep(0.1) in acquire_lock: a thread that finds the lock taken waits,
\* and its waiting adds up to the timeout
Sleep ==
    /\ hs[Poller].pc \in {"acq_top", "acq_create"}
    /\ lock # NoLock
    /\ AcquireWithinTimeout(hs[Poller])
    /\ now' = hs[Poller].start + ACQUIRE_TIMEOUT
    /\ UNCHANGED <<w, ticks, db, failed, lock, vtt, sidecar, hs, nreq, hist>>

PollStep == Poll \/ LockStep(Poller) \/ GetTaskStep(Poller)

PollNext == Tick \/ Sleep \/ PollStep

PollSpec == Init /\ [][PollNext]_vars /\ WF_vars(PollStep) /\ WF_vars(Sleep)

(***************************************************************************)
(* One worker running process_loop against the coordinator.  Its requests  *)
(* are served by one thread; a request can fail before it reaches the      *)
(* coordinator, and its response can be lost on the way back.              *)
(***************************************************************************)
Serving == "h1"

SetW(rec) == w' = rec

\* what requests.get / requests.post give the worker once the handler has
\* answered: the status code, or an exception (0 here) when the response is lost
Seen(lost) == IF lost THEN 0 ELSE hs[Serving].resp

\* a loop that never looks at the flag
BreakOr_Never(rec, pc) == [rec EXCEPT !.pc = pc]

\* if interrupted: break, where the loop would go on at pc
BreakOr(rec, pc) == [rec EXCEPT !.pc = IF rec.interrupted THEN "exited" ELSE pc]

\* check_timeout and check_timeout(): elapsed_seconds / 3600.0 > PROCESSING_HOURS
\* with PROCESSING_HOURS > 0; check_timeout is None without CRON
CheckTimeout ==
    /\ w.cron
    /\ PROCESSING_HOURS > 0
    /\ now - w.session_start > PROCESSING_HOURS * 3600

\* a loop that polls without looking at check_timeout
WorkerPoll_NoCheck ==
    /\ w.pc \in {"poll", "ended"}
    /\ w.polls < MaxPolls
    /\ BeginGetTask(Serving)
    /\ SetW([w EXCEPT !.pc = "await_task", !.polls = @ + 1,
                      !.after = IF w.interrupted THEN @ + 1 ELSE @])
    /\ UNCHANGED nreq

\* the top of `while True`, then requests.get(get_url): the iteration's
\* variables are set afresh
WorkerPoll ==
    /\ w.pc \in {"poll", "ended"}
    /\ ~CheckTimeout
    /\ w.polls < MaxPolls
    /\ BeginGetTask(Serving)
    /\ SetW([w EXCEPT !.pc = "await_task", !.polls = @ + 1,
                      !.after = IF w.interrupted THEN @ + 1 ELSE @])
    /\ UNCHANGED nreq

\* requests.get raises before the coordinator is reached: the outer except,
\* sleep, next pass
WorkerPollUnreachable ==
    /\ w.pc \in {"poll", "ended"}
    /\ ~CheckTimeout
    /\ w.polls < MaxPolls
    /\ SetW(BreakOr([w EXCEPT !.polls = @ + 1,
                              !.after = IF w.interrupted THEN @ + 1 ELSE @], "poll"))
    /\ UNCHANGED <<now, ticks, db, failed, lock, vtt, sidecar, hs, nreq, hist>>

\* the answer to GET /task: 200 starts an iteration on the task, anything
\* else (204, 500, an exception) sleeps and polls again
WorkerTaskAnswered ==
    /\ w.pc = "await_task"
    /\ hs[Serving].pc = "done"
    /\ \E lost \in BOOLEAN :
          SetW(IF Seen(lost) = 200
               THEN [w EXCEPT !.pc = "pipeline", !.task_id = hs[Serving].id,
                              !.vtt_file = NoFile, !.vtt_content = "", !.attempt = 0,
                              !.posted = FALSE, !.ret = "none",
                              !.transcribed = FALSE, !.accepted = FALSE,
                              !.reached = FALSE, !.moved = FALSE]
               ELSE BreakOr(w, "poll"))
    /\ UNCHANGED <<now, ticks, db, failed, lock, vtt, sidecar, hs, nreq, hist>>

\* the download, ffprobe, ffmpeg or whisper fails: except Exception
WorkerPipelineFails ==
    /\ w.pc = "pipeline"
    /\ SetW([w EXCEPT !.pc = "report", !.ret = "except_cleanup"])
    /\ UNCHANGED <<now, ticks, db, failed, lock, vtt, sidecar, hs, nreq, hist>>

\* whisper ends with rc 0 and has written vtt_file
WorkerTranscribes ==
    /\ w.pc = "pipeline"
    /\ SetW([w EXCEPT !.pc = "read_vtt", !.vtt_file = VttOf("A"), !.transcribed = TRUE])
    /\ UNCHANGED <<now, ticks, db, failed, lock, vtt, sidecar, hs, nreq, hist>>

\* with open(vtt_file, "r") as f: vtt_content = f.read()
WorkerReadVtt ==
    /\ w.pc = "read_vtt"
    /\ SetW([w EXCEPT !.pc = "upload", !.vtt_content = w.vtt_file])
    /\ UNCHANGED <<now, ticks, db, failed, lock, vtt, sidecar, hs, nreq, hist>>

\* the read raises (OSError, UnicodeDecodeError): except Exception
WorkerReadVttFails ==
    /\ w.pc = "read_vtt"
    /\ SetW([w EXCEPT !.pc = "report", !.ret = "except_cleanup"])
    /\ UNCHANGED <<now, ticks, db, failed, lock, vtt, sidecar, hs, nreq, hist>>

\* requests.post(error_url, {"id": task_id})
WorkerPostError ==
    /\ w.pc = "report"
    /\ BeginPostError(Serving, w.task_id)
    /\ SetW([w EXCEPT !.pc = "await_report", !.reached = TRUE])
    /\ UNCHANGED nreq

\* the marker file not_processed_failed_report/<task_id>
WithMarker(rec) == [rec EXCEPT !.not_processed_failed_report = @ \cup {rec.task_id}]

\* requests.post(error_url) raises before the coordinator is reached: marker
WorkerPostErrorUnreachable ==
    /\ w.pc = "report"
    /\ SetW(WithMarker([w EXCEPT !.pc = w.ret, !.ret = "none",
                                 !.stranded = IF w.moved /\ ~w.reached /\ ~w.posted
                                              THEN @ \cup {w.task_id} ELSE @]))
    /\ UNCHANGED <<now, ticks, db, failed, lock, vtt, sidecar, hs, nreq, hist>>

\* the answer to POST /error: anything but 200 leaves the marker
WorkerErrorAnswered ==
    /\ w.pc = "await_report"
    /\ hs[Serving].pc = "done"
    /\ \E lost \in BOOLEAN :
          LET next == [w EXCEPT !.pc = w.ret, !.ret = "none"]
          IN  SetW(IF Seen(lost) = 200 THEN next ELSE WithMarker(next))
    /\ UNCHANGED <<now, ticks, db, failed, lock, vtt, sidecar, hs, nreq, hist>>

\* the failure path ends: cleanup_files(current_files), vtt_file among them
WorkerExceptCleanup ==
    /\ w.pc = "except_cleanup"
    /\ SetW(BreakOr([w EXCEPT !.vtt_file = NoFile], "ended"))
    /\ UNCHANGED <<now, ticks, db, failed, lock, vtt, sidecar, hs, nreq, hist>>

\* a try of POST /result that did not give 200: time.sleep(5) and the next
\* one, or the end of the loop
FailedAttempt(rec) ==
    [rec EXCEPT !.attempt = @ + 1,
                !.pc = IF rec.attempt + 1 < UPLOAD_ATTEMPTS THEN "upload" ELSE "move"]

\* requests.post(post_url, {"id": task_id, "vtt": vtt_content})
WorkerPostResult ==
    /\ w.pc = "upload"
    /\ BeginPostResult(Serving, w.task_id, w.vtt_content)
    /\ SetW([w EXCEPT !.pc = "await_result", !.reached = TRUE])
    /\ UNCHANGED nreq

\* requests.post(post_url) raises before the coordinator is reached
WorkerPostResultUnreachable ==
    /\ w.pc = "upload"
    /\ SetW(FailedAttempt(w))
    /\ UNCHANGED <<now, ticks, db, failed, lock, vtt, sidecar, hs, nreq, hist>>

\* the answer to POST /result: 200 sets posted and leaves the loop
WorkerResultAnswered ==
    /\ w.pc = "await_result"
    /\ hs[Serving].pc = "done"
    /\ \E lost \in BOOLEAN :
          LET rec == [w EXCEPT !.accepted = @ \/ hs[Serving].resp = 200]
          IN  SetW(IF Seen(lost) = 200
                   THEN [rec EXCEPT !.pc = "move", !.posted = TRUE]
                   ELSE FailedAttempt(rec))
    /\ UNCHANGED <<now, ticks, db, failed, lock, vtt, sidecar, hs, nreq, hist>>

\* after the loop: what follows the move of vtt_file: with posted the final
\* cleanup, without POST /error first
AfterMove(rec) ==
    IF rec.posted THEN [rec EXCEPT !.pc = "cleanup"]
    ELSE [rec EXCEPT !.pc = "report", !.ret = "cleanup"]

\* os.rename(vtt_file, processed_uploaded/<task_id>.vtt) with posted, else
\* os.rename(vtt_file, processed_not_uploaded/<task_id>.vtt)
WorkerMove ==
    /\ w.pc = "move"
    /\ SetW(AfterMove(
          IF w.posted
          THEN [w EXCEPT !.processed_uploaded = @ \cup {w.task_id}, !.vtt_file = NoFile,
                         !.moved = TRUE]
          ELSE [w EXCEPT !.processed_not_uploaded = @ \cup {w.task_id}, !.vtt_file = NoFile,
                         !.moved = TRUE]))
    /\ UNCHANGED <<now, ticks, db, failed, lock, vtt, sidecar, hs, nreq, hist>>

\* os.rename raises: the except clause prints and goes on, vtt_file in place
WorkerMoveFails ==
    /\ w.pc = "move"
    /\ SetW(AfterMove(w))
    /\ UNCHANGED <<now, ticks, db, failed, lock, vtt, sidecar, hs, nreq, hist>>

\* cleanup_files([mp3_file, wav_file]) and os.remove of a vtt_file still there
WorkerCleanup ==
    /\ w.pc = "cleanup"
    /\ SetW(BreakOr([w EXCEPT !.vtt_file = NoFile], "ended"))
    /\ UNCHANGED <<now, ticks, db, failed, lock, vtt, sidecar, hs, nreq, hist>>

WorkerStep ==
    \/ WorkerPoll
    \/ WorkerPollUnreachable
    \/ WorkerTaskAnswered
    \/ WorkerPipelineFails
    \/ WorkerTranscribes
    \/ WorkerReadVtt
    \/ WorkerReadVttFails
    \/ WorkerPostError
    \/ WorkerPostErrorUnreachable
    \/ WorkerErrorAnswered
    \/ WorkerExceptCleanup
    \/ WorkerPostResult
    \/ WorkerPostResultUnreachable
    \/ WorkerResultAnswered
    \/ WorkerMove
    \/ WorkerMoveFails
    \/ WorkerCleanup

WorkerNext == Tick \/ WorkerStep \/ ServerStep(Serving)

WorkerSpec == Init /\ [][WorkerNext]_vars

(***************************************************************************)
(* SIGINT and SIGTERM reaching the worker.                                 *)
(***************************************************************************)
\* signal_handler: interrupted = True, whatever the loop is doing
Interrupt ==
    /\ w.pc # "exited"
    /\ ~w.interrupted
    /\ SetW([w EXCEPT !.interrupted = TRUE])
    /\ UNCHANGED <<now, ticks, db, failed, lock, vtt, sidecar, hs, nreq, hist>>

InterruptNext == Tick \/ Interrupt \/ WorkerStep \/ ServerStep(Serving)

InterruptSpec == Init /\ [][InterruptNext]_vars

(***************************************************************************)
(* The scheduler: with CRON set, process_loop runs in windows that start  *)
(* at the fire times of the cron expression and last PROCESSING_HOURS.     *)
(***************************************************************************)
\* time.sleep(delta) until next_run is over (or next_run is past already):
\* session_start = datetime.now() and process_loop(check_timeout) is called
SchedulerFire ==
    /\ w.pc = "sched_sleep"
    /\ SetW([w EXCEPT !.pc = "poll", !.session_start = now])
    /\ UNCHANGED <<now, ticks, db, failed, lock, vtt, sidecar, hs, nreq, hist>>

\* at the top of `while True` check_timeout() is true: break; the scheduler
\* then leaves on the flag or goes on to cron.get_next
WindowExpired ==
    /\ w.pc \in {"poll", "ended"}
    /\ CheckTimeout
    /\ SetW(BreakOr(w, "sched_sleep"))
    /\ UNCHANGED <<now, ticks, db, failed, lock, vtt, sidecar, hs, nreq, hist>>

\* the budget of the window runs out, whatever the worker is doing
BudgetRunsOut ==
    /\ ticks < MaxTicks
    /\ w.cron /\ w.pc \notin {"sched_sleep", "exited"}
    /\ ~CheckTimeout
    /\ now' = w.session_start + PROCESSING_HOURS * 3600 + 1
    /\ ticks' = ticks + 1
    /\ UNCHANGED <<w, db, failed, lock, vtt, sidecar, hs, nreq, hist>>

SchedulerStep == SchedulerFire \/ WindowExpired

WindowInit == ServerInit /\ w = [IdleW EXCEPT !.pc = "sched_sleep", !.cron = TRUE]

WindowNext ==
    Tick \/ BudgetRunsOut \/ Interrupt \/ SchedulerStep \/ WorkerStep \/ ServerStep(Serving)

WindowSpec == WindowInit /\ [][WindowNext]_vars

(***************************************************************************)
(* Subtitle files removed from the audio root by someone else.             *)
(***************************************************************************)
\* the sibling .vtt of a file is deleted: vtt.exists() is False from then on
DeleteArtifact ==
    /\ \E p \in Paths :
          /\ vtt[p] # NoFile
          /\ vtt' = [vtt EXCEPT ![p] = NoFile]
    /\ UNCHANGED <<w, now, ticks, db, failed, lock, sidecar, hs, nreq, hist>>

DeleteNext == Tick \/ DeleteArtifact \/ WorkerStep \/ ServerStep(Serving)

DeleteSpec == Init /\ [][DeleteNext]_vars

(***************************************************************************)
(* The Retry Driver: client.py --retry_failed, one run of retry_failed()   *)
(* between two iterations of the worker or after another run.              *)
(***************************************************************************)

RETRY_ATTEMPTS == 3

\* the worker's three directories and the coordinator's files
Holdings ==
    [processed_uploaded |-> w.processed_uploaded,
     processed_not_uploaded |-> w.processed_not_uploaded,
     not_processed_failed_report |-> w.not_processed_failed_report,
     db |-> db, failed |-> failed, vtt |-> vtt]

\* retry_failed() runs in a process of its own (client.py --retry_failed):
\* of the worker it has the three directories only;
\* os.listdir("processed_not_uploaded") starts pass 1
RetryStart ==
    /\ w.pc \in {"poll", "ended", "rf_done"}
    /\ SetW([IdleW EXCEPT !.pc = "rf1_next", !.todo = w.processed_not_uploaded,
                          !.processed_uploaded = w.processed_uploaded,
                          !.processed_not_uploaded = w.processed_not_uploaded,
                          !.not_processed_failed_report = w.not_processed_failed_report,
                          !.stranded = IF w.pc = "rf_done" THEN {} ELSE w.stranded,
                          !.snap = IF /\ w.pc = "rf_done"
                                      /\ w.rfFirstTry /\ w.rfReachable /\ w.rfReadOk
                                   THEN <<Holdings>> ELSE <<>>])
    /\ UNCHANGED <<now, ticks, db, failed, lock, vtt, sidecar, hs, nreq, hist>>

\* the loop goes on to its next file: task_id, vtt_content, posted and attempt
\* are assigned anew before they are read again
NextFile(rec, pc) ==
    [rec EXCEPT !.pc = pc, !.task_id = "", !.vtt_content = "", !.attempt = 0,
                !.posted = FALSE]

\* pass 1, the next <task_id>.vtt of the listing: it is read (a read that
\* raises prints and continues); after the last one
\* os.listdir("not_processed_failed_report") starts pass 2
RetryNextArtifact ==
    /\ w.pc = "rf1_next"
    /\ IF w.todo = {}
       THEN SetW([w EXCEPT !.pc = "rf2_next", !.todo = w.not_processed_failed_report])
       ELSE \E id \in w.todo, readable \in BOOLEAN :
               SetW(IF readable
                    THEN [w EXCEPT !.pc = "rf1_post", !.todo = @ \ {id}, !.task_id = id,
                                   !.vtt_content = VttOf("A"), !.attempt = 0,
                                   !.posted = FALSE]
                    ELSE [w EXCEPT !.todo = @ \ {id}, !.rfReadOk = FALSE])
    /\ UNCHANGED <<now, ticks, db, failed, lock, vtt, sidecar, hs, nreq, hist>>

\* a try of pass 1 that did not give 200: time.sleep(5) and the next one, or
\* the end of the loop with posted still False
RetryFailedAttempt(rec) ==
    [rec EXCEPT !.attempt = @ + 1, !.rfFirstTry = FALSE,
                !.pc = IF rec.attempt + 1 < RETRY_ATTEMPTS THEN "rf1_post" ELSE "rf1_error"]

\* pass 1: requests.post(post_url, {"id": task_id, "vtt": vtt_content})
RetryPostResult ==
    /\ w.pc = "rf1_post"
    /\ BeginPostResult(Serving, w.task_id, w.vtt_content)
    /\ SetW([w EXCEPT !.pc = "rf1_await"])
    /\ UNCHANGED nreq

\* pass 1: requests.post raises before the coordinator is reached
RetryPostResultUnreachable ==
    /\ w.pc = "rf1_post"
    /\ SetW([RetryFailedAttempt(w) EXCEPT !.rfReachable = FALSE])
    /\ UNCHANGED <<now, ticks, db, failed, lock, vtt, sidecar, hs, nreq, hist>>

\* pass 1: the answer to POST /result: 200 sets posted and leaves the loop
RetryResultAnswered ==
    /\ w.pc = "rf1_await"
    /\ hs[Serving].pc = "done"
    /\ \E lost \in BOOLEAN :
          LET rec == [w EXCEPT !.rfReachable = @ /\ ~lost]
          IN  SetW(IF Seen(lost) = 200
                   THEN [rec EXCEPT !.pc = "rf1_move", !.posted = TRUE]
                   ELSE RetryFailedAttempt(rec))
    /\ UNCHANGED <<now, ticks, db, failed, lock, vtt, sidecar, hs, nreq, hist>>

\* pass 1 with posted: os.rename into processed_uploaded/, then os.remove of
\* the marker when it exists; either may raise, which is printed
RetryMove ==
    /\ w.pc = "rf1_move"
    /\ \E renamed \in BOOLEAN, removed \in BOOLEAN :
          SetW([NextFile(w, "rf1_next") EXCEPT
                         !.rfFilesOk = @ /\ renamed
                                         /\ (removed \/ w.task_id \notin w.not_processed_failed_report),
                         !.processed_not_uploaded = IF renamed THEN @ \ {w.task_id} ELSE @,
                         !.processed_uploaded = IF renamed THEN @ \cup {w.task_id} ELSE @,
                         !.not_processed_failed_report =
                             IF removed THEN @ \ {w.task_id} ELSE @])
    /\ UNCHANGED <<now, ticks, db, failed, lock, vtt, sidecar, hs, nreq, hist>>

\* pass 1 without posted: requests.post(error_url, {"id": task_id})
RetryPostError ==
    /\ w.pc = "rf1_error"
    /\ BeginPostError(Serving, w.task_id)
    /\ SetW([w EXCEPT !.pc = "rf1_error_await"])
    /\ UNCHANGED nreq

\* pass 1: that requests.post raises: the marker is created when absent
RetryPostErrorUnreachable ==
    /\ w.pc = "rf1_error"
    /\ SetW(NextFile(WithMarker([w EXCEPT !.rfReachable = FALSE, !.rfFirstTry = FALSE]),
                     "rf1_next"))
    /\ UNCHANGED <<now, ticks, db, failed, lock, vtt, sidecar, hs, nreq, hist>>

\* pass 1: the answer to POST /error: anything but 200 leaves a marker
RetryErrorAnswered ==
    /\ w.pc = "rf1_error_await"
    /\ hs[Serving].pc = "done"
    /\ \E lost \in BOOLEAN :
          LET rec == [w EXCEPT !.rfReachable = @ /\ ~lost]
          IN  SetW(NextFile(IF Seen(lost) = 200 THEN rec
                            ELSE WithMarker([rec EXCEPT !.rfFirstTry = FALSE]),
                            "rf1_next"))
    /\ UNCHANGED <<now, ticks, db, failed, lock, vtt, sidecar, hs, nreq, hist>>

\* pass 2, the next marker of the listing; after the last one the run ends
RetryNextMarker ==
    /\ w.pc = "rf2_next"
    /\ IF w.todo = {}
       THEN SetW([w EXCEPT !.pc = "rf_done"])
       ELSE \E id \in w.todo :
               SetW([w EXCEPT !.pc = "rf2_post", !.todo = @ \ {id}, !.task_id = id,
                              !.attempt = 0])
    /\ UNCHANGED <<now, ticks, db, failed, lock, vtt, sidecar, hs, nreq, hist>>

\* a Retry Driver that gives a marker up after its last try
RetryFailedReport_Unlinks(rec) ==
    IF rec.attempt + 1 < RETRY_ATTEMPTS
    THEN [rec EXCEPT !.pc = "rf2_post", !.attempt = @ + 1, !.rfFirstTry = FALSE]
    ELSE NextFile([rec EXCEPT !.rfFirstTry = FALSE,
                              !.not_processed_failed_report = @ \ {rec.task_id}],
                  "rf2_next")

\* a try of pass 2 that did not give 200: time.sleep(5) and the next one, or
\* the end of the loop with the marker kept
RetryFailedReport(rec) ==
    IF rec.attempt + 1 < RETRY_ATTEMPTS
    THEN [rec EXCEPT !.pc = "rf2_post", !.attempt = @ + 1, !.rfFirstTry = FALSE]
    ELSE NextFile([rec EXCEPT !.rfFirstTry = FALSE], "rf2_next")

\* pass 2: requests.post(error_url, {"id": task_id})
RetryReport ==
    /\ w.pc = "rf2_post"
    /\ BeginPostError(Serving, w.task_id)
    /\ SetW([w EXCEPT !.pc = "rf2_await"])
    /\ UNCHANGED nreq

\* pass 2: requests.post raises before the coordinator is reached
RetryReportUnreachable ==
    /\ w.pc = "rf2_post"
    /\ SetW([RetryFailedReport(w) EXCEPT !.rfReachable = FALSE])
    /\ UNCHANGED <<now, ticks, db, failed, lock, vtt, sidecar, hs, nreq, hist>>

\* pass 2: the answer to POST /error: 200 removes the marker (an os.remove
\* that raises is printed)
RetryReportAnswered ==
    /\ w.pc = "rf2_await"
    /\ hs[Serving].pc = "done"
    /\ \E lost \in BOOLEAN, removed \in BOOLEAN :
          LET rec == [w EXCEPT !.rfReachable = @ /\ ~lost]
          IN  SetW(IF Seen(lost) = 200
                   THEN NextFile([rec EXCEPT !.rfFilesOk = @ /\ removed,
                                             !.not_processed_failed_report =
                                                 IF removed THEN @ \ {w.task_id} ELSE @],
                                 "rf2_next")
                   ELSE RetryFailedReport(rec))
    /\ UNCHANGED <<now, ticks, db, failed, lock, vtt, sidecar, hs, nreq, hist>>

RetryStep ==
    \/ RetryStart
    \/ RetryNextArtifact
    \/ RetryPostResult
    \/ RetryPostResultUnreachable
    \/ RetryResultAnswered
    \/ RetryMove
    \/ RetryPostError
    \/ RetryPostErrorUnreachable
    \/ RetryErrorAnswered
    \/ RetryNextMarker
    \/ RetryReport
    \/ RetryReportUnreachable
    \/ RetryReportAnswered

RetryNext == Tick \/ Sleep \/ WorkerStep \/ RetryStep \/ ServerStep(Serving)

\* the worker's loop and the coordinator's handlers run on, and the Retry
\* Driver is run again and again
RetrySpec ==
    /\ Init /\ [][RetryNext]_vars
    /\ WF_vars(WorkerStep) /\ WF_vars(RetryStep)
    /\ WF_vars(ServerStep(Serving)) /\ WF_vars(Sleep)

(***************************************************************************)
(* Properties of the coordinator.                                          *)
(***************************************************************************)
\* the requests that have been answered
Answered(r, kind) == hs[r].pc = "done" /\ hs[r].kind = kind

\* the handlers that serve a POST
PostKinds == {"result", "error"}

\* the paths DB_FILE records in progress, line by line
DbPaths == [i \in 1..Len(db) |-> LinePath(db[i])]

\* C1: uniqueness of claim: no task is in progress for two workers at once,
\* that is no two lines of DB_FILE name the same path
C1_UniqueClaim ==
    \A i, j \in 1..Len(db) : i # j => DbPaths[i] # DbPaths[j]

\* the audio file an id stands for
PathOfId(id) == CHOOSE p \in Paths : MD5(p) = id

\* C2: no silent loss: when the iteration of a task whose transcription
\* succeeded has ended, the coordinator has accepted the result and holds the
\* artifact, or the worker holds it in processed_uploaded or
\* processed_not_uploaded
C2_NoSilentLoss ==
    (w.pc = "ended" /\ w.transcribed)
        => \/ w.accepted /\ vtt[PathOfId(w.task_id)] # NoFile
           \/ w.task_id \in w.processed_uploaded
           \/ w.task_id \in w.processed_not_uploaded

\* C3: completion implies artifact: a task that POST /result took out of
\* in progress has its subtitle file on disk, the artifact being written
\* before the task leaves in progress
C3_CompletionImpliesArtifact ==
    \A p \in completed : vtt[p] # NoFile

\* C4: a POST /result whose artifact cannot be written is answered with a 5xx
\* and its task is still in progress
C4_WriteFailureKeepsTask ==
    \A r \in Handlers :
        (Answered(r, "result") /\ hs[r].error = "ArtifactWriteFailed")
            => /\ hs[r].resp >= 500
               /\ \E i \in 1..Len(db) : LineId(db[i]) = hs[r].id

\* C5: duplicate late result: when the first claimant's lease has expired and
\* the task was claimed again, a POST /result of the first claimant with the
\* task's id is answered 404 and changes nothing
C5_LateResultRejected ==
    \A r \in Handlers :
        (Answered(r, "result") /\ hs[r].late) => (hs[r].resp = 404 /\ ~hs[r].touched)

\* the in-progress line of path p has outlived the lease
LeaseExpired(p) ==
    \E i \in 1..Len(db) : LinePath(db[i]) = p /\ Expired(LineTs(db[i]), now)

\* the generations a path goes through in the model
Generations == 0..(MaxTicks + 1)

\* C6: lease recovery: a task whose claim has outlived TASK_TIMEOUT without a
\* report is, while workers keep polling, eventually handed out again
C6_LeaseRecovery ==
    \A p \in Paths : \A g \in Generations :
        (LeaseExpired(p) /\ gen[p] = g) ~> (gen[p] > g)

\* C7: when a GET /task removes an expired entry from the in-progress list,
\* the same cleanup records the path as failed
C7_ExpiryRecordsFailed ==
    \A r \in Handlers :
        (hs[r].cleaned /\ hs[r].pc \in {"ff_scan", "gt_json", "gt_append", "gt_release", "done"})
            => SeqRange(hs[r].expired) \subseteq failed

\* C8: a task for which POST /error was answered 200 is failed: no GET /task
\* that arrives afterwards hands it out
C8_ErrorExcludesTask ==
    \A r \in Handlers :
        (Answered(r, "task") /\ hs[r].resp = 200) => hs[r].file \notin hs[r].erroredAtStart

\* C9: a failed task whose artifact is missing is eventually recycled: it does
\* not stay in the failed list for ever
C9_FailedRecycled ==
    \A p \in Paths : (p \in failed /\ vtt[p] = NoFile) ~> (p \notin failed)

Status(p) ==
    IF \E i \in 1..Len(db) : DbPaths[i] = p THEN "in_progress"
    ELSE IF vtt[p] # NoFile THEN "completed"
    ELSE IF p \in failed THEN "failed"
    ELSE "pending"

\* the edges of the task state machine
LegalEdges ==
    {<<"pending", "in_progress">>, <<"in_progress", "completed">>,
     <<"in_progress", "failed">>, <<"failed", "pending">>}

\* C12: legal transitions only: every change of a task's status follows an
\* edge of the state machine; in particular none goes from in progress
\* straight to pending
C12_LegalTransitions ==
    [][\A p \in Paths : Status(p)' # Status(p) => <<Status(p), Status(p)'>> \in LegalEdges]_vars
\* C13: coordinator unreachable at upload.  An iteration whose transcription
\* succeeded and whose three POST /result and POST /error all failed to reach
\* the coordinator ends with the artifact in processed_not_uploaded/ and the
\* marker in not_processed_failed_report/ (the rename having succeeded); and
\* once a later run of the Retry Driver, with every request answered and
\* every file operation succeeding, has ended, neither is left.
C13_UnreachableThenRetry ==
    /\ (w.pc = "ended" /\ w.transcribed /\ ~w.reached /\ ~w.posted /\ w.moved)
          => /\ w.task_id \in w.processed_not_uploaded
             /\ w.task_id \in w.not_processed_failed_report
             /\ w.task_id \in w.stranded
    /\ (w.pc = "rf_done" /\ w.rfReachable /\ w.rfReadOk /\ w.rfFilesOk)
          => \A id \in w.stranded :
                /\ id \notin w.processed_not_uploaded
                /\ id \notin w.not_processed_failed_report

\* every request of the Retry Driver's runs is answered, and none of its open,
\* os.rename and os.remove raises
RetryGood == w.rfReachable /\ w.rfReadOk /\ w.rfFilesOk

\* C14: the Retry Driver drains the bins.  With the coordinator reachable and
\* the driver run repeatedly, every artifact in processed_not_uploaded/ and
\* every marker in not_processed_failed_report/ eventually leaves its bin.
C14_RetryDrains ==
    []RetryGood =>
        \A id \in RequestIds :
            /\ (id \in w.processed_not_uploaded) ~> (id \notin w.processed_not_uploaded)
            /\ (id \in w.not_processed_failed_report)
                  ~> (id \notin w.not_processed_failed_report)

\* C15: idempotent retry.  When a run of the Retry Driver has read every
\* artifact of its listing and every one of its coordinator calls succeeded on
\* its first attempt, a second run started right after it (its requests all
\* answered) ends with the worker's three bins and the coordinator's
\* in-progress table, failed list and artifacts as it found them.
C15_IdempotentRetry ==
    (w.pc = "rf_done" /\ w.snap # <<>> /\ w.rfReachable) => Holdings = w.snap[1]

\* C16: graceful interrupt.  Once SIGINT or SIGTERM has set the interrupted
\* flag, the worker issues no GET /task, and when it exits after a task whose
\* transcript it has moved, the artifact is in processed_uploaded/ or in
\* processed_not_uploaded/.
C16_GracefulInterrupt ==
    [][w.interrupted =>
          /\ ~(w.pc \in {"poll", "ended"} /\ w'.pc = "await_task")
          /\ (w'.pc = "exited" /\ w'.moved)
                => w'.task_id \in w'.processed_uploaded \cup w'.processed_not_uploaded]_vars

\* C17: id purity and routing.  The X-Task-ID of every 200 of GET /task is the
\* MD5 of the path handed out, every line of DB_FILE records a path under the
\* MD5 of that path, and an artifact is written only by a POST /result, with
\* its body, as the sibling .vtt of the path whose MD5 is the id posted.
C17_IdRouting ==
    [][/\ \A r \in Handlers :
             (hs'[r].pc = "done" /\ hs'[r].kind = "task" /\ hs'[r].resp = 200)
                => hs'[r].id = MD5(hs'[r].file)
       /\ \A i \in 1..Len(db') : LineId(db'[i]) = MD5(LinePath(db'[i]))
       /\ \A p \in Paths :
             vtt'[p] # vtt[p]
                => \E r \in Handlers :
                      /\ hs[r].kind = "result" /\ hs'[r].resp = 200
                      /\ hs[r].matching_path = p
                      /\ hs[r].id = MD5(p)
                      /\ vtt'[p] = hs[r].body]_vars

\* an accepted POST /result has written the artifact of the path with a ':'
C17_Witness ==
    /\ Answered(Serving, "result") /\ hs[Serving].resp = 200
    /\ hs[Serving].id = MD5(P3)
    /\ vtt[P3] = hs[Serving].body
    /\ vtt[P1] = NoFile

\* C18: crash and interleaving safety of POST /result.  Once POST /result has
\* taken a task out of in progress (no artifact being deleted afterwards), no
\* GET /task records the task in progress again, wherever it runs between
\* the rewrite of DB_FILE and the write of the artifact.
C18_NoReissueAfterResult ==
    [][\A r \in Handlers :
          (hs[r].pc = "gt_append" /\ hs'[r].pc = "gt_release")
             => hs[r].file \notin completed]_vars

\* C19: a file whose sibling .vtt exists when GET /task scans the audio root
\* is not handed out: the scan's file is recorded in progress, and answered
\* with 200, only if its .vtt was absent at the scan.
C19_ArtifactNeverHandedOut ==
    \A r \in Handlers :
        (hs[r].kind = "task"
            /\ (hs[r].pc \in {"gt_json", "gt_append", "gt_release"}
                  \/ (hs[r].pc = "done" /\ hs[r].resp = 200)))
          => hs[r].file \notin hs[r].withVtt

\* a GET /task was answered 200 with the second file, the first one having
\* its .vtt at the scan
C19_Witness ==
    \E r \in Handlers :
        /\ Answered(r, "task") /\ hs[r].resp = 200
        /\ hs[r].file = P2
        /\ P1 \in hs[r].withVtt
        /\ sidecar[P1] /\ P1 \notin failed

\* C20: a completed task whose artifact is deleted becomes claimable again.
\* A scan of GET /task goes past a file that is neither in progress nor
\* failed only if its .vtt is there, so that a completed file whose .vtt was
\* removed is returned like a new one; and a POST /result that is answered
\* 200 has written its body as the artifact, whether or not one was written
\* before.
C20_DeletedClaimable ==
    [][/\ \A r \in Handlers : hs'[r].passed \subseteq hs'[r].withVtt
       /\ \A r \in Handlers :
             (hs[r].kind = "result" /\ hs[r].pc # "done"
                 /\ hs'[r].pc = "done" /\ hs'[r].resp = 200)
               => vtt'[hs[r].matching_path] = hs[r].body]_vars

\* the worker uploaded the first file's subtitles, the artifact was deleted,
\* the file was handed out again and the second POST /result has written it
C20_Witness ==
    /\ Answered(Serving, "result") /\ hs[Serving].resp = 200
    /\ hs[Serving].id = MD5(P1)
    /\ vtt[P1] = hs[Serving].body
    /\ gen[P1] = 2
    /\ MD5(P1) \in w.processed_uploaded
    /\ w.pc = "await_result"

\* what C21 says besides the move: a POST /result only as one of the first
\* UPLOAD_ATTEMPTS tries and never after a 200; with posted no POST /error,
\* no artifact filed in processed_not_uploaded/ and no marker created
UploadBounded ==
    /\ (w.pc = "upload" /\ w'.pc = "await_result") => (w.attempt < UPLOAD_ATTEMPTS /\ ~w.posted)
    /\ (w.posted /\ w.pc \in {"move", "cleanup"}) =>
          /\ w'.pc \notin {"await_report", "report", "upload", "await_result"}
          /\ w'.processed_not_uploaded = w.processed_not_uploaded
          /\ w'.not_processed_failed_report = w.not_processed_failed_report

\* C21: after a transcription the worker sends POST /result at most 3 times
\* and stops at the first 200; on that 200 the artifact is moved to
\* processed_uploaded/<task_id>.vtt, no POST /error is sent, and nothing is
\* filed in processed_not_uploaded/ or not_processed_failed_report/
C21_UploadStep ==
    [][/\ UploadBounded
       /\ (w.posted /\ w.pc = "move") => w'.task_id \in w'.processed_uploaded]_vars

\* the part of C21 the code keeps, as a property of its own
C21_UploadBounded == [][UploadBounded]_vars

\* what C22 says of POST /error: one request per failed iteration, and the
\* marker not_processed_failed_report/<task_id> there after it unless it
\* was answered 200, untouched otherwise
OneErrorReport ==
    /\ (w.pc = "report" /\ w'.pc \notin {"report", "await_report"}) =>
          w'.task_id \in w'.not_processed_failed_report
    /\ (w.pc = "await_report" /\ w' # w) =>
          /\ w'.pc \in {"except_cleanup", "cleanup"}
          /\ hs[Serving].resp # 200 => w'.task_id \in w'.not_processed_failed_report
          /\ w'.not_processed_failed_report \in
                {w.not_processed_failed_report, w.not_processed_failed_report \cup {w.task_id}}
    /\ (w.pc \in {"except_cleanup", "cleanup"} /\ w' # w) =>
          /\ w'.pc \in {"ended", "exited"}
          /\ w'.not_processed_failed_report = w.not_processed_failed_report

\* the iteration on a task ends without a POST /result answered 200 seen
FailedIterationEnds ==
    /\ \/ w.pc = "except_cleanup"
       \/ w.pc = "cleanup" /\ ~w.posted
    /\ w'.pc \in {"ended", "exited"}

\* C22: on a failure at any step of the pipeline or of the upload the worker
\* moves the artifact, if there is one, to processed_not_uploaded/<task_id>.vtt
\* and never deletes it, sends exactly one POST /error, and creates the
\* marker if and only if that POST /error was not answered 200
C22_FailureStep ==
    [][/\ OneErrorReport
       /\ (FailedIterationEnds /\ w.transcribed) => w'.task_id \in w'.processed_not_uploaded]_vars

\* the part of C22 the code keeps, as a property of its own
C22_OneErrorReport == [][OneErrorReport]_vars

\* what C23 says of the tries and of the failure branch of pass 1: POST
\* /result only as one of the first RETRY_ATTEMPTS tries; without a 200 the
\* artifact stays in processed_not_uploaded/, one POST /error is sent (which
\* is within the three the claim allows), and the marker is there after it
\* unless it was answered 200
Pass1Failure ==
    /\ (w.pc = "rf1_post" /\ w'.pc = "rf1_await") => (w.attempt < RETRY_ATTEMPTS /\ ~w.posted)
    /\ (w.pc = "rf1_await" /\ w'.pc = "rf1_error") => w'.attempt = RETRY_ATTEMPTS
    /\ (w.pc \in {"rf1_post", "rf1_await", "rf1_error", "rf1_error_await"}) =>
          w'.processed_not_uploaded = w.processed_not_uploaded
    /\ (w.pc = "rf1_error" /\ w' # w) =>
          \/ w'.pc = "rf1_error_await"
          \/ w'.pc = "rf1_next" /\ w.task_id \in w'.not_processed_failed_report
    /\ (w.pc = "rf1_error_await" /\ w' # w) =>
          /\ w'.pc = "rf1_next"
          /\ hs[Serving].resp # 200 => w.task_id \in w'.not_processed_failed_report

\* C23: pass 1 of the Retry Driver, per artifact: POST /result up to 3
\* times; on a 200 the artifact is moved to processed_uploaded/ and the
\* marker of the task id is deleted; without a 200 the artifact stays, POST
\* /error is attempted, and a marker exists afterwards if it got no 200
C23_RetryPass1 ==
    [][/\ Pass1Failure
       /\ (w.pc = "rf1_move" /\ w' # w) =>
             /\ w.task_id \in w'.processed_uploaded
             /\ w.task_id \notin w'.processed_not_uploaded
             /\ w.task_id \notin w'.not_processed_failed_report]_vars

\* the part of C23 the code keeps, as a property of its own
C23_Pass1Failure == [][Pass1Failure]_vars

\* C24: pass 2 of the Retry Driver, per marker: POST /error is tried up to 3
\* times; the marker is deleted only after a 200 response, and when no try
\* is answered 200 (a 404 included) the marker is left in place
C24_RetryPass2 ==
    [][/\ (w.pc = "rf2_post" /\ w'.pc = "rf2_await") => w.attempt < RETRY_ATTEMPTS
       /\ (w.pc \in {"rf2_next", "rf2_post", "rf2_await"}) =>
             \/ w'.not_processed_failed_report = w.not_processed_failed_report
             \/ /\ w.pc = "rf2_await"
                /\ hs[Serving].resp = 200
                /\ w'.not_processed_failed_report = w.not_processed_failed_report \ {w.task_id}]_vars

\* pass 2 is through with a marker whose POST /error was answered 404, and
\* the marker is in place
C24_Witness ==
    /\ w.pc = "rf2_next"
    /\ w.task_id = ""
    /\ hs[Serving].pc = "done" /\ hs[Serving].kind = "error" /\ hs[Serving].resp = 404
    /\ hs[Serving].id \in w.not_processed_failed_report
    /\ hs[Serving].id \notin w.todo
    /\ w.processed_not_uploaded = {}

\* the worker is in an iteration on a task it got with a 200
TaskInFlight ==
    w.pc \in {"pipeline", "read_vtt", "upload", "await_result", "move", "report",
              "await_report", "cleanup", "except_cleanup"}

HoldsLockFile(r) == lock # NoLock /\ lock[1].by = r

\* the request of thread r has answered 200 to GET /task: the body is streamed
Streams(r) == hs[r].pc = "done" /\ hs[r].kind = "task" /\ hs[r].resp = 200

\* C26: the lock is never held by a request while it streams the audio body
\* of GET /task or writes the artifact of POST /result; GET /task records
\* the in-progress entry, then releases the lock, and only then streams
C26_NoLockAcrossIO ==
    [][\A r \in Handlers :
          /\ (Streams(r) \/ hs[r].pc = "pr_write_vtt")' => ~HoldsLockFile(r)'
          /\ (Streams(r)' /\ ~Streams(r)) => hs[r].pc = "gt_release"
          /\ (hs'[r].pc = "gt_release" /\ hs[r].pc # "gt_release") =>
                /\ hs[r].pc = "gt_append"
                /\ HoldsLockFile(r) => HoldsLockFile(r)'
                /\ \E i \in 1..Len(db') :
                      LineId(db'[i]) = MD5(hs[r].file) /\ LinePath(db'[i]) = hs[r].file]_vars

\* a request writes its artifact while the other thread holds the lock
C26_Witness ==
    \E r \in Handlers :
       /\ hs[r].pc = "pr_write_vtt"
       /\ lock # NoLock /\ lock[1].by # r
       /\ hs[lock[1].by].pc \notin {"idle", "done"}

\* the request of thread r is between an acquire_lock that returned and the
\* release_lock that belongs to it (the cleanup of expired entries calls
\* add_to_failed, and with it acquire_lock, inside that stretch)
InCritical(r) ==
    \/ hs[r].pc \in {"gt_append", "gt_release", "atf_append", "atf_release",
                     "ff_exp_read", "ff_exp_write", "ff_exp_release", "ff_exp_unwind",
                     "pr_read", "pr_not_found", "pr_write_db", "pr_release",
                     "pe_read", "pe_not_found", "pe_write_db", "pe_release"}
    \/ hs[r].pc \in {"acq_top", "acq_remove", "acq_create"} /\ hs[r].site = "expire"

\* C27: at any moment at most one request is between a successful
\* acquire_lock and its release_lock, also when a holder keeps the lock
\* longer than STALE_LOCK_TIMEOUT and when several waiters look for a stale
\* lock at once; release_lock never removes a lock file another request made
C27_MutualExclusion ==
    [][/\ \A r1, r2 \in Handlers : (InCritical(r1) /\ InCritical(r2))' => r1 = r2
       /\ \A r \in Handlers :
             (InCritical(r) /\ hs'[r] # hs[r] /\ lock # NoLock /\ lock' = NoLock)
                => lock[1].by = r]_vars

\* the second half of C27 alone: release_lock removes the caller's file only
C27_ReleaseOwn ==
    [][\A r \in Handlers :
          (InCritical(r) /\ hs'[r] # hs[r] /\ lock # NoLock /\ lock' = NoLock)
             => lock[1].by = r]_vars

\* the request of thread r calls acquire_lock
EntersAcquire(r) == hs'[r].pc = "acq_top" /\ hs[r].pc \notin {"acq_top", "acq_remove", "acq_create"}

\* C28: no request calls acquire_lock while it holds the lock, so that a
\* GET /task that found expired in-progress entries ends its cleanup and
\* answers 200 or 204, never 500 after a TimeoutError of acquire_lock
C28_NoSelfDeadlock ==
    [][\A r \in Handlers :
          /\ EntersAcquire(r) => ~InCritical(r)
          /\ (hs'[r].pc = "done" /\ hs[r].pc # "done" /\ hs[r].kind = "task"
                 /\ hs[r].cleaned) => hs'[r].resp \in {200, 204}]_vars

\* the second half of C28 alone: the answer of a GET /task that has taken
\* the lock for its expired entries and rewritten DB_FILE without them
C28_CleanupAnswers ==
    [][\A r \in Handlers :
          (hs'[r].pc = "done" /\ hs[r].pc # "done" /\ hs[r].kind = "task"
             /\ hs[r].cleaned) => hs'[r].resp \in {200, 204}]_vars

\* C29: once the interrupted flag is set the worker issues at most one more
\* GET /task, and with it processes at most one more task; every way out of
\* a loop iteration (204, another status, a failed pipeline, the upload
\* done, an exception) tests the flag, so that with the flag set the worker
\* leaves the Worker Loop and the scheduler loop instead of polling again
C29_BoundedShutdown ==
    [][/\ w'.after <= 1
       /\ (w.interrupted /\ w.pc \notin {"poll", "ended", "sched_sleep"} /\ w'.pc # w.pc) =>
             w'.pc \notin {"poll", "ended", "sched_sleep"}
       /\ (w.interrupted /\ w'.pc = "sched_sleep") => w.pc = "sched_sleep"
       /\ w.pc = "exited" => w'.pc = "exited"]_vars

\* the flag was set before the worker's one GET /task; the worker got a
\* task, uploaded it, moved the artifact and left
C29_Witness ==
    /\ w.pc = "exited"
    /\ w.polls = 1 /\ w.after = 1
    /\ w.posted /\ w.task_id \in w.processed_uploaded
====
